---- MODULE Spec2Model ----
(***************************************************************************)
(* Model of the text highlighter (highlightTextRanges and its helpers).    *)
(* Strings are sequences of one-character strings; a Range is a pair       *)
(* <<start, end>> of integers.                                             *)
(***************************************************************************)
EXTENDS Integers, Sequences, FiniteSets, TLC

VARIABLES textToHighlight, ranges, createExcerpt, pc, processedRanges,
          escapedText, segments, output, index, result, error, renormalized

vars == <<textToHighlight, ranges, createExcerpt, pc, processedRanges,
          escapedText, segments, output, index, result, error, renormalized>>

(* ------------------------------ bounds --------------------------------- *)

\* longest input text
MaxLen == 2

\* longest range list handed to highlightTextRanges
MaxRanges == 2

\* largest offset of a range handed to highlightTextRanges (smallest: 0)
MaxOff == 1

\* longest range list handed to the range pipeline on its own
MaxPipeRanges == 3

\* largest offset of a range handed to the range pipeline on its own
\* (smallest: -1)
MaxPipeOff == 1

\* characters of the input texts: a word character, white space, a
\* punctuation mark of [.,!?], and two characters of the escape table
Alphabet == {"a", " ", ".", "<", "'"}

Offsets == 0..MaxOff

PipeOffsets == (0 - 1)..MaxPipeOff

RECURSIVE SeqsUpTo(_, _)
SeqsUpTo(S, n) ==
  IF n = 0 THEN {<<>>}
  ELSE LET shorter == SeqsUpTo(S, n - 1)
       IN  shorter \cup {Append(s, x) : s \in {t \in shorter : Len(t) = n - 1}, x \in S}

Texts == SeqsUpTo(Alphabet, MaxLen)

RangeLists == SeqsUpTo(Offsets \X Offsets, MaxRanges)

PipeRangeLists == SeqsUpTo(PipeOffsets \X PipeOffsets, MaxPipeRanges)

(* ------------------------ JavaScript primitives ------------------------ *)

Min(a, b) == IF a <= b THEN a ELSE b

Max(a, b) == IF a >= b THEN a ELSE b

\* the value of an absent match / an absent word
Null == <<"null">>

\* \s
Whitespace == {" "}

\* \w : the word characters that occur in texts and in the entities
WordChars == {"a", "l", "t", "g", "q", "u", "o", "m", "p", "3", "9", "e"}

\* [.,!?]
Punctuation == {".", ",", "!", "?"}

\* String.prototype.slice: a negative offset counts from the end, offsets
\* are clamped to the string, an inverted slice is empty
RelIndex(s, i) == IF i < 0 THEN Max(Len(s) + i, 0) ELSE Min(i, Len(s))

Slice(s, a, b) ==
  LET from == RelIndex(s, a)
      to   == RelIndex(s, b)
  IN  IF from >= to THEN <<>> ELSE SubSeq(s, from + 1, to)

SliceFrom(s, a) == Slice(s, a, Len(s))

RECURSIVE TrimStart(_)
TrimStart(s) ==
  IF s # <<>> /\ Head(s) \in Whitespace THEN TrimStart(Tail(s)) ELSE s

RECURSIVE TrimEnd(_)
TrimEnd(s) ==
  IF s # <<>> /\ s[Len(s)] \in Whitespace
  THEN TrimEnd(SubSeq(s, 1, Len(s) - 1)) ELSE s

\* String.prototype.trim
Trim(s) == TrimEnd(TrimStart(s))

\* does pat occur in s at 0-based offset i
OccursAt(s, pat, i) ==
  /\ i >= 0
  /\ i + Len(pat) <= Len(s)
  /\ SubSeq(s, i + 1, i + Len(pat)) = pat

\* String.prototype.indexOf(pat, from): from is clamped to [0, length]
IndexOf(s, pat, from) ==
  LET start == Min(Max(from, 0), Len(s))
      hits  == {i \in start..Len(s) : OccursAt(s, pat, i)}
  IN  IF hits = {} THEN 0 - 1
      ELSE CHOOSE i \in hits : \A j \in hits : i <= j

\* replace(/\s+/g, " ")
RECURSIVE CollapseWhitespace(_)
CollapseWhitespace(s) ==
  IF s = <<>> THEN <<>>
  ELSE IF Head(s) \in Whitespace
       THEN <<" ">> \o CollapseWhitespace(TrimStart(s))
       ELSE <<Head(s)>> \o CollapseWhitespace(Tail(s))

(* --------------------------- range pipeline ---------------------------- *)

\* the comparator a[0] - b[0] || a[1] - b[1] puts a before b
RangeBefore(a, b) == a[1] < b[1] \/ (a[1] = b[1] /\ a[2] < b[2])

\* stable insertion of r into the sorted list
RECURSIVE InsertSorted(_, _)
InsertSorted(sorted, r) ==
  IF sorted = <<>> THEN <<r>>
  ELSE IF RangeBefore(r, Head(sorted)) THEN <<r>> \o sorted
       ELSE <<Head(sorted)>> \o InsertSorted(Tail(sorted), r)

RECURSIVE SortRanges(_)
SortRanges(rs) ==
  IF rs = <<>> THEN <<>>
  ELSE InsertSorted(SortRanges(SubSeq(rs, 1, Len(rs) - 1)), rs[Len(rs)])

OrderEndpoints(r) == <<Min(r[1], r[2]), Max(r[1], r[2])>>

normalizeRanges(rs) ==
  SortRanges([i \in 1..Len(rs) |-> OrderEndpoints(rs[i])])

\* a Map keyed by the range's JSON keeps each key at its first position
RECURSIVE removeDuplicates(_)
removeDuplicates(rs) ==
  IF rs = <<>> THEN <<>>
  ELSE LET init == SubSeq(rs, 1, Len(rs) - 1)
           last == rs[Len(rs)]
       IN  IF \E i \in 1..Len(init) : init[i] = last
           THEN removeDuplicates(init)
           ELSE Append(removeDuplicates(init), last)

\* the reducer of mergeRanges
MergeStepStrict(merged, r) ==
  IF merged = <<>> THEN <<r>>
  ELSE LET last == merged[Len(merged)]
       IN  IF r[1] < last[2]
           THEN [merged EXCEPT ![Len(merged)] = <<last[1], Max(last[2], r[2])>>]
           ELSE Append(merged, r)

MergeStepNoMax(merged, r) ==
  IF merged = <<>> THEN <<r>>
  ELSE LET last == merged[Len(merged)]
       IN  IF r[1] <= last[2]
           THEN [merged EXCEPT ![Len(merged)] = <<last[1], r[2]>>]
           ELSE Append(merged, r)

MergeStep(merged, r) ==
  IF merged = <<>> THEN <<r>>
  ELSE LET last == merged[Len(merged)]
       IN  IF r[1] <= last[2]
           THEN [merged EXCEPT ![Len(merged)] = <<last[1], Max(last[2], r[2])>>]
           ELSE Append(merged, r)

RECURSIVE MergeFold(_)
MergeFold(rs) ==
  IF rs = <<>> THEN <<>>
  ELSE MergeStep(MergeFold(SubSeq(rs, 1, Len(rs) - 1)), rs[Len(rs)])

\* a merge that compares each range with the range before it in the input
\* instead of with the last merged range
RECURSIVE mergeRangesPrevInput(_)
mergeRangesPrevInput(rs) ==
  IF Len(rs) <= 1 THEN rs
  ELSE LET merged == mergeRangesPrevInput(SubSeq(rs, 1, Len(rs) - 1))
           prev   == rs[Len(rs) - 1]
           r      == rs[Len(rs)]
           last   == merged[Len(merged)]
       IN  IF r[1] <= prev[2]
           THEN [merged EXCEPT ![Len(merged)] = <<last[1], Max(last[2], r[2])>>]
           ELSE Append(merged, r)

mergeRanges(rs) == MergeFold(rs)

\* [normalizeRanges, removeDuplicates, mergeRanges].reduce((r, fn) => fn(r), ranges)
RangePipeline(rs) == mergeRanges(removeDuplicates(normalizeRanges(rs)))

(* ------------------------------ escaping ------------------------------- *)

\* the htmlEscapes table without the entry for the single quote
EscapeCharNoQuote(c) ==
  CASE c = "&" -> <<"&", "a", "m", "p", ";">>
    [] c = "<" -> <<"&", "l", "t", ";">>
    [] c = ">" -> <<"&", "g", "t", ";">>
    [] c = "\"" -> <<"&", "q", "u", "o", "t", ";">>
    [] OTHER   -> <<c>>

\* the htmlEscapes table; a character outside /[&<>"']/ is left alone
EscapeChar(c) ==
  CASE c = "&" -> <<"&", "a", "m", "p", ";">>
    [] c = "<" -> <<"&", "l", "t", ";">>
    [] c = ">" -> <<"&", "g", "t", ";">>
    [] c = "\"" -> <<"&", "q", "u", "o", "t", ";">>
    [] c = "'" -> <<"&", "#", "3", "9", ";">>
    [] OTHER   -> <<c>>

RECURSIVE escapeHtml(_)
escapeHtml(s) ==
  IF s = <<>> THEN <<>> ELSE EscapeChar(Head(s)) \o escapeHtml(Tail(s))

(* ------------------------------ markers -------------------------------- *)

EmOpen == <<"<", "e", "m", ">">>

EmClose == <<"<", "/", "e", "m", ">">>

Ellipsis == <<"[", ".", ".", ".", "]">>

(* -------------------------- extractTextSegment ------------------------- *)

\* 0-based offset at which the last run of word characters of s starts,
\* -1 when s has no word character
LastWordStart(s) ==
  LET starts == {i \in 0..(Len(s) - 1) :
                   /\ s[i + 1] \in WordChars
                   /\ (i = 0 \/ s[i] \notin WordChars)}
  IN  IF starts = {} THEN 0 - 1
      ELSE CHOOSE i \in starts : \A j \in starts : j <= i

\* beforeText.match(/(?:\b\w+[.,!?]*)\W*$/): the match starts at the last
\* word of beforeText and runs to its end; Null when there is no word
BeforeMatch(beforeText) ==
  IF LastWordStart(beforeText) < 0 THEN Null
  ELSE SliceFrom(beforeText, LastWordStart(beforeText))

\* length of the run of non-word characters s starts with (the greedy \W*)
RECURSIVE NonWordPrefix(_)
NonWordPrefix(s) ==
  IF s # <<>> /\ Head(s) \notin WordChars THEN 1 + NonWordPrefix(Tail(s)) ELSE 0

\* length of the run of word characters s starts with (the greedy \w+)
RECURSIVE WordPrefix(_)
WordPrefix(s) ==
  IF s # <<>> /\ Head(s) \in WordChars THEN 1 + WordPrefix(Tail(s)) ELSE 0

\* afterText.match(/^\W*([.,!?])|^\W*(\w+)/): group 1 is the last
\* punctuation mark of the leading non-word run (the greedy \W* gives back
\* as little as it can), else group 2 is the word after that run; "at" is
\* the 0-based offset of the captured group in afterText
AfterMatch(afterText) ==
  LET k      == NonWordPrefix(afterText)
      puncts == {i \in 0..(k - 1) : afterText[i + 1] \in Punctuation}
      p      == CHOOSE i \in puncts : \A j \in puncts : j <= i
      w      == WordPrefix(SliceFrom(afterText, k))
  IN  IF puncts # {}
      THEN [matched |-> TRUE, g1 |-> <<afterText[p + 1]>>, g2 |-> Null, at |-> p]
      ELSE IF w > 0
           THEN [matched |-> TRUE, g1 |-> Null,
                 g2 |-> Slice(afterText, k, k + w), at |-> k]
           ELSE [matched |-> FALSE, g1 |-> Null, g2 |-> Null, at |-> 0 - 1]

\* /[.,!?]/.test(s)
HasPunctuation(s) == \E i \in 1..Len(s) : s[i] \in Punctuation

\* the test for more text that forgets to step over the token
HasMoreContentFromToken(text, next, end) ==
  IF next # Null
  THEN Len(Trim(SliceFrom(text, IndexOf(text, next, end)))) > 0
  ELSE FALSE

\* next ? text.slice(text.indexOf(next, end) + next.length).trim().length > 0 : false
HasMoreContent(text, next, end) ==
  IF next # Null
  THEN Len(Trim(SliceFrom(text, IndexOf(text, next, end) + Len(next)))) > 0
  ELSE FALSE

extractTextSegment(text, range, idx) ==
  LET start      == range[1]
      end        == range[2]
      target     == Trim(Slice(text, start, end))
      beforeText == Slice(text, 0, start)
      beforeMatch == BeforeMatch(beforeText)
      previous   == IF beforeMatch # Null THEN Trim(beforeMatch) ELSE Null
      afterText  == SliceFrom(text, end)
      afterMatch == AfterMatch(afterText)
      nextPunctuation == IF afterMatch.g1 # Null /\ afterMatch.g1 # <<>>
                         THEN afterMatch.g1 ELSE Null
      nextWord   == IF afterMatch.g2 # Null /\ afterMatch.g2 # <<>>
                    THEN afterMatch.g2 ELSE Null
      next       == IF nextPunctuation # Null THEN nextPunctuation ELSE nextWord
      c1 == IF idx > 0 THEN Ellipsis \o <<" ">> ELSE <<>>
      c2 == IF previous # Null /\ previous # <<>> THEN c1 \o previous ELSE c1
      c3 == c2 \o <<" ">> \o EmOpen \o target \o EmClose
      c4 == IF next # Null
            THEN IF HasPunctuation(next) THEN c3 \o next ELSE c3 \o <<" ">> \o next
            ELSE c3
      hasMoreContent == HasMoreContent(text, next, end)
      c5 == IF hasMoreContent THEN c4 \o <<" ">> \o Ellipsis \o <<" ">> ELSE c4
  IN  [range |-> <<start, end>>, target |-> target, previous |-> previous,
       next |-> next, context |-> Trim(CollapseWhitespace(c5))]

(* ----------------------------- highlightText --------------------------- *)

\* one turn of the for loop over the ranges; acc is [result, lastIndex]
HighlightStep(text, acc, range) ==
  LET rangeText == Slice(text, range[1], range[2])
  IN  IF Len(rangeText) = 0 THEN acc
      ELSE [result |-> acc.result \o Slice(text, acc.lastIndex, range[1])
                         \o EmOpen \o rangeText \o EmClose,
            lastIndex |-> range[2]]

RECURSIVE HighlightLoop(_, _)
HighlightLoop(text, rs) ==
  IF rs = <<>> THEN [result |-> <<>>, lastIndex |-> 0]
  ELSE HighlightStep(text, HighlightLoop(text, SubSeq(rs, 1, Len(rs) - 1)), rs[Len(rs)])

highlightText(text, rs) ==
  IF text = <<>> \/ Len(rs) = 0 THEN <<>>
  ELSE LET acc == HighlightLoop(text, rs)
       IN  acc.result \o SliceFrom(text, acc.lastIndex)

(* -------------------------- excerptHighlighting ------------------------ *)

\* a seam that keeps the leading marker of the next segment
KeepLeadingEllipsis(context) == context

\* context.replace(/^\[...\]\s+/, " ")
RewriteLeadingEllipsis(context) ==
  IF /\ Len(context) >= 6
     /\ context[1] = "["
     /\ context[5] = "]"
     /\ context[6] \in Whitespace
  THEN <<" ">> \o TrimStart(SliceFrom(context, 5))
  ELSE context

(* --------------------------- highlightTextRanges ----------------------- *)

NoTextError == "No text provided to highlight"

NoRangesError == "No ranges provided for highlighting"

NoError == "none"

\* the two guards checked in the other order
ValidationErrorRangesFirst(text, rs) ==
  IF Len(rs) = 0 THEN NoRangesError
  ELSE IF text = <<>> THEN NoTextError
  ELSE NoError

\* the two guards at the head of highlightTextRanges
ValidationError(text, rs) ==
  IF text = <<>> THEN NoTextError
  ELSE IF Len(rs) = 0 THEN NoRangesError
  ELSE NoError

\* the end-of-text fix-up of the first processed range
FixUp(text, escaped, processed) ==
  IF processed[1][2] = Len(text)
  THEN [processed EXCEPT ![1] = <<processed[1][1], Len(escaped)>>]
  ELSE processed

Init ==
  /\ textToHighlight \in Texts
  /\ ranges \in RangeLists
  /\ createExcerpt \in BOOLEAN
  /\ pc = "start"
  /\ processedRanges = <<>>
  /\ escapedText = <<>>
  /\ segments = <<>>
  /\ output = <<>>
  /\ index = 0
  /\ result = Null
  /\ error = NoError
  /\ renormalized = <<>>

\* a guard throws: the call ends without a result
Throw ==
  /\ pc = "start"
  /\ ValidationError(textToHighlight, ranges) # NoError
  /\ error' = ValidationError(textToHighlight, ranges)
  /\ pc' = "failed"
  /\ UNCHANGED <<textToHighlight, ranges, createExcerpt, processedRanges,
                 escapedText, segments, output, index, result, renormalized>>

\* the range pipeline, the escaping and the fix-up, up to the dispatch
Prepare ==
  /\ pc = "start"
  /\ ValidationError(textToHighlight, ranges) = NoError
  /\ escapedText' = Trim(escapeHtml(textToHighlight))
  /\ processedRanges' = FixUp(textToHighlight, escapedText', RangePipeline(ranges))
  /\ pc' = "dispatch"
  /\ UNCHANGED <<textToHighlight, ranges, createExcerpt, segments, output,
                 index, result, error, renormalized>>

\* createExcerpt is false: highlightText(escapedText, processedRanges)
HighlightFull ==
  /\ pc = "dispatch"
  /\ ~createExcerpt
  /\ result' = highlightText(escapedText, processedRanges)
  /\ pc' = "done"
  /\ UNCHANGED <<textToHighlight, ranges, createExcerpt, processedRanges,
                 escapedText, segments, output, index, error, renormalized>>

\* excerptHighlighting returns "" for an empty text
ExcerptEmpty ==
  /\ pc = "dispatch"
  /\ createExcerpt
  /\ (escapedText = <<>> \/ Len(processedRanges) = 0)
  /\ result' = <<>>
  /\ pc' = "done"
  /\ UNCHANGED <<textToHighlight, ranges, createExcerpt, processedRanges,
                 escapedText, segments, output, index, error, renormalized>>

\* excerptHighlighting: ranges.map(extractTextSegment)
ExtractSegments ==
  /\ pc = "dispatch"
  /\ createExcerpt
  /\ escapedText # <<>>
  /\ Len(processedRanges) # 0
  /\ segments' = [i \in 1..Len(processedRanges) |->
                    extractTextSegment(escapedText, processedRanges[i], i - 1)]
  /\ output' = <<>>
  /\ index' = 0
  /\ pc' = "assemble"
  /\ UNCHANGED <<textToHighlight, ranges, createExcerpt, processedRanges,
                 escapedText, result, error, renormalized>>

\* one turn of the reducer: append this segment's context, then rewrite
\* the context of the next segment
AssembleStep ==
  /\ pc = "assemble"
  /\ index < Len(segments)
  /\ output' = output \o segments[index + 1].context
  /\ segments' = IF index + 2 <= Len(segments)
                 THEN [segments EXCEPT ![index + 2].context =
                         RewriteLeadingEllipsis(segments[index + 2].context)]
                 ELSE segments
  /\ index' = index + 1
  /\ UNCHANGED <<textToHighlight, ranges, createExcerpt, pc, processedRanges,
                 escapedText, result, error, renormalized>>

\* the reducer is through: the output is trimmed and returned
AssembleFinish ==
  /\ pc = "assemble"
  /\ index = Len(segments)
  /\ result' = Trim(output)
  /\ pc' = "done"
  /\ UNCHANGED <<textToHighlight, ranges, createExcerpt, processedRanges,
                 escapedText, segments, output, index, error, renormalized>>

Next ==
  \/ Throw
  \/ Prepare
  \/ HighlightFull
  \/ ExcerptEmpty
  \/ ExtractSegments
  \/ AssembleStep
  \/ AssembleFinish

Spec == Init /\ [][Next]_vars

(* ------------------- the range pipeline on its own --------------------- *)

InitPipe ==
  /\ textToHighlight = <<>>
  /\ ranges \in PipeRangeLists
  /\ createExcerpt = FALSE
  /\ pc = "raw"
  /\ processedRanges = ranges
  /\ escapedText = <<>>
  /\ segments = <<>>
  /\ output = <<>>
  /\ index = 0
  /\ result = Null
  /\ error = NoError
  /\ renormalized = <<>>

PipeNormalize ==
  /\ pc = "raw"
  /\ processedRanges' = normalizeRanges(processedRanges)
  /\ pc' = "sorted"
  /\ UNCHANGED <<textToHighlight, ranges, createExcerpt, escapedText, segments,
                 output, index, result, error, renormalized>>

PipeRemoveDuplicates ==
  /\ pc = "sorted"
  /\ processedRanges' = removeDuplicates(processedRanges)
  /\ pc' = "deduplicated"
  /\ UNCHANGED <<textToHighlight, ranges, createExcerpt, escapedText, segments,
                 output, index, result, error, renormalized>>

PipeMerge ==
  /\ pc = "deduplicated"
  /\ processedRanges' = mergeRanges(processedRanges)
  /\ pc' = "merged"
  /\ UNCHANGED <<textToHighlight, ranges, createExcerpt, escapedText, segments,
                 output, index, result, error, renormalized>>

\* the pipeline applied to its own result
PipeAgain ==
  /\ pc = "merged"
  /\ renormalized' = RangePipeline(processedRanges)
  /\ pc' = "renormalized"
  /\ UNCHANGED <<textToHighlight, ranges, createExcerpt, processedRanges,
                 escapedText, segments, output, index, result, error>>

NextPipe ==
  \/ PipeNormalize
  \/ PipeRemoveDuplicates
  \/ PipeMerge
  \/ PipeAgain

SpecPipe == InitPipe /\ [][NextPipe]_vars

(* ============================== claims ================================= *)

StartsWith(s, pre) == Len(s) >= Len(pre) /\ SubSeq(s, 1, Len(pre)) = pre

EndsWith(s, suf) ==
  Len(s) >= Len(suf) /\ SubSeq(s, Len(s) - Len(suf) + 1, Len(s)) = suf

\* every offset of the ranges lies in [0, length(text)]
InBounds(rs, text) ==
  \A i \in 1..Len(rs) : rs[i][1] \in 0..Len(text) /\ rs[i][2] \in 0..Len(text)

\* the character at 0-based offset i of the text lies in one of the ranges
Covered(rs, i) ==
  \E k \in 1..Len(rs) : Min(rs[k][1], rs[k][2]) <= i /\ i < Max(rs[k][1], rs[k][2])

\* the text with every maximal covered run wrapped, escaped piece by piece
RECURSIVE WrapFrom(_, _, _)
WrapFrom(text, rs, i) ==
  IF i >= Len(text) THEN <<>>
  ELSE (IF Covered(rs, i) /\ (i = 0 \/ ~Covered(rs, i - 1)) THEN EmOpen ELSE <<>>)
       \o escapeHtml(<<text[i + 1]>>)
       \o (IF Covered(rs, i) /\ (i = Len(text) - 1 \/ ~Covered(rs, i + 1))
           THEN EmClose ELSE <<>>)
       \o WrapFrom(text, rs, i + 1)

\* C1: in non-excerpt mode, for ranges with offsets in [0, length(text)],
\* the result is the escaped text with exactly the maximal covered runs of
\* the original text wrapped in <em>...</em>.
C1_WrapsCoveredRuns ==
  (pc = "done" /\ ~createExcerpt /\ InBounds(ranges, textToHighlight))
    => result = WrapFrom(textToHighlight, ranges, 0)

\* C2: in both modes every '<' and every '>' of the result belongs to a
\* literal <em> or </em>, and the result holds no raw quote character.
C2_OnlyEmphasisMarkup ==
  pc = "done" =>
    \A i \in 1..Len(result) :
      /\ result[i] \notin {"\"", "'"}
      /\ result[i] = "<" =>
           \/ OccursAt(result, EmOpen, i - 1)
           \/ OccursAt(result, EmClose, i - 1)
      /\ result[i] = ">" =>
           \/ OccursAt(result, EmOpen, i - 4)
           \/ OccursAt(result, EmClose, i - 5)

\* a finished call whose text held a '<' and a quote, some of it highlighted
C2_Witness ==
  /\ pc = "done"
  /\ createExcerpt
  /\ \E i \in 1..Len(textToHighlight) : textToHighlight[i] = "<"
  /\ \E i \in 1..Len(textToHighlight) : textToHighlight[i] = "'"
  /\ \E i \in 1..Len(result) : result[i] = "&"
  /\ \E i \in 1..Len(result) : OccursAt(result, EmOpen, i - 1)

\* C3: the call fails, before any processing and without a result, exactly
\* when the text is empty (the "No text" error, whatever the ranges are) or
\* the text is non-empty and the range list is empty (the "No ranges"
\* error), for either value of the excerpt flag.
C3_FailsExactlyOnEmptyInput ==
  pc # "start" =>
    /\ (pc = "failed") = (textToHighlight = <<>> \/ ranges = <<>>)
    /\ (error = NoTextError) = (textToHighlight = <<>>)
    /\ (error = NoRangesError) = (textToHighlight # <<>> /\ ranges = <<>>)
    /\ pc = "failed" =>
         /\ result = Null
         /\ processedRanges = <<>>
         /\ escapedText = <<>>
         /\ segments = <<>>
    /\ pc = "done" => result # Null

\* the call failed on an empty text given together with an empty range list
C3_Witness ==
  /\ pc = "failed"
  /\ textToHighlight = <<>>
  /\ ranges = <<>>
  /\ createExcerpt
  /\ error = NoTextError

\* C4: the result of normalizeRanges -> removeDuplicates -> mergeRanges has
\* start <= end in every range, is sorted ascending by start, holds no
\* range twice, and each range starts strictly after the one before it ends.
C4_PipelinePostcondition ==
  pc \in {"merged", "renormalized"} =>
    /\ \A i \in 1..Len(processedRanges) : processedRanges[i][1] <= processedRanges[i][2]
    /\ \A i, j \in 1..Len(processedRanges) :
         i < j => /\ processedRanges[i][1] <= processedRanges[j][1]
                  /\ processedRanges[i] # processedRanges[j]
    /\ \A i \in 1..(Len(processedRanges) - 1) :
         processedRanges[i + 1][1] > processedRanges[i][2]

\* three ranges given out of order, one of them inverted, two of them
\* touching: two ranges are left
C4_Witness ==
  /\ pc = "merged"
  /\ Len(ranges) = 3
  /\ ranges[1][1] > ranges[3][1]
  /\ \E i \in 1..3 : ranges[i][1] > ranges[i][2]
  /\ \E i, j \in 1..3 : i # j /\ OrderEndpoints(ranges[i])[2] = OrderEndpoints(ranges[j])[1]
  /\ Len(processedRanges) = 2

\* two ranges (a,b), (c,d), each with start <= end, that overlap or touch
TwoOverlapping ==
  /\ Len(ranges) = 2
  /\ ranges[1][1] <= ranges[1][2]
  /\ ranges[2][1] <= ranges[2][2]
  /\ ranges[2][1] <= ranges[1][2]
  /\ ranges[1][1] <= ranges[2][2]

\* C5 as stated: two overlapping or touching ranges (a,b), (c,d) with
\* c <= b give exactly the one range (a, max(b,d)).
C5_MergedStartsAtFirst ==
  (pc = "merged" /\ TwoOverlapping)
    => processedRanges = << <<ranges[1][1], Max(ranges[1][2], ranges[2][2])>> >>

\* C5 as amended: two overlapping or touching ranges (a,b), (c,d) give
\* exactly the one range (min(a,c), max(b,d)); ranges that touch at the
\* boundary are merged.
C5_MergedSpansBoth ==
  (pc = "merged" /\ TwoOverlapping)
    => processedRanges = << <<Min(ranges[1][1], ranges[2][1]),
                              Max(ranges[1][2], ranges[2][2])>> >>

\* the second range starts before the first one and reaches into it
C5_Witness ==
  /\ pc = "merged"
  /\ TwoOverlapping
  /\ ranges[2][1] < ranges[1][1]
  /\ ranges[2][2] < ranges[1][2]
  /\ processedRanges = << <<ranges[2][1], ranges[1][2]>> >>

\* C6: the pipeline applied to its own result gives the same list again.
C6_PipelineIdempotent ==
  pc = "renormalized" => renormalized = processedRanges

\* a list the pipeline changed, normalized a second time
C6_Witness ==
  /\ pc = "renormalized"
  /\ Len(ranges) = 3
  /\ Len(processedRanges) = 2
  /\ processedRanges[1] \notin {ranges[i] : i \in 1..3}
  /\ renormalized = processedRanges

\* C7: in non-excerpt mode the result is never shorter than the text.
C7_OutputNotShorter ==
  (pc = "done" /\ ~createExcerpt) => Len(result) >= Len(textToHighlight)

\* C8: for ranges with offsets in [0, length(text)], the ranges handed on
\* at the dispatch have start <= end, each starts strictly after the one
\* before it ends, and a first range that ended at the length of the
\* original text ends at the length of the escaped text.
C8_DispatchedRangesNormalized ==
  (pc = "dispatch" /\ InBounds(ranges, textToHighlight)) =>
    /\ \A i \in 1..Len(processedRanges) : processedRanges[i][1] <= processedRanges[i][2]
    /\ \A i \in 1..(Len(processedRanges) - 1) :
         processedRanges[i + 1][1] > processedRanges[i][2]
    /\ RangePipeline(ranges)[1][2] = Len(textToHighlight)
         => processedRanges[1][2] = Len(escapedText)

\* the context extractTextSegment built for the k-th processed range
FreshContext(k) == extractTextSegment(escapedText, processedRanges[k], k - 1).context

\* no two "[...]" markers of s with nothing but white space between them
NoDoubleEllipsis(s) ==
  LET marks == {i \in 0..(Len(s) - 1) : s[i + 1] = "[" /\ OccursAt(s, Ellipsis, i)}
  IN  \A i, j \in marks : i < j => \E m \in (i + 6)..j : s[m] \notin Whitespace

\* C9: in excerpt mode every segment after the first has its leading
\* "[...] " rewritten to one space before it is appended (and not earlier),
\* the result never holds two "[...]" markers separated only by white
\* space, and the result has no leading or trailing white space.
C9_NoDuplicateEllipsis ==
  /\ pc = "assemble" =>
       \A k \in 2..Len(segments) :
         IF k <= index + 1
         THEN /\ StartsWith(FreshContext(k), Ellipsis \o <<" ">>)
              /\ segments[k].context = <<" ">> \o SliceFrom(FreshContext(k), 6)
              /\ segments[k].context[2] \notin Whitespace
         ELSE segments[k].context = FreshContext(k)
  /\ pc = "assemble" => NoDoubleEllipsis(output)
  /\ (pc = "done" /\ createExcerpt) =>
       /\ NoDoubleEllipsis(result)
       /\ result # <<>> => result[1] \notin Whitespace /\ result[Len(result)] \notin Whitespace

\* two segments: the first ends with a marker, the second began with one
C9_Witness ==
  /\ pc = "done"
  /\ createExcerpt
  /\ Len(segments) = 2
  /\ EndsWith(segments[1].context, Ellipsis)
  /\ StartsWith(FreshContext(2), Ellipsis)
  /\ \E i \in 0..Len(result) : OccursAt(result, Ellipsis, i)

\* 0-based offset in the text at which the next token of the segment was matched
MatchedAt(seg) ==
  RelIndex(escapedText, seg.range[2]) + AfterMatch(SliceFrom(escapedText, seg.range[2])).at

\* a character that is not white space at or after 0-based offset i
ContentFrom(i) == \E m \in (i + 1)..Len(escapedText) : escapedText[m] \notin Whitespace

====
